---- MODULE Spec2Model ----
(***************************************************************************)
(* State machine of salt/states/boto_vpc.py: the eight public state        *)
(* functions (present, absent, subnet_present, subnet_absent,              *)
(* internet_gateway_present, internet_gateway_absent, route_table_present, *)
(* route_table_absent) and the three private steps of route_table_present  *)
(* (_route_table_present, _routes_present, _subnets_present), run against  *)
(* an abstract provider (the boto_vpc execution module behind __salt__).   *)
(*                                                                         *)
(* Python values: None is the string "None"; a result is one of "True",    *)
(* "False", "None"; a list is a sequence (an omitted list argument and an  *)
(* empty one take the same branch of `if not x` and are both <<>>); a dict *)
(* is a function from its keys; a comment is a sequence of messages so     *)
(* that ' '.join is concatenation.                                         *)
(***************************************************************************)
EXTENDS Integers, Sequences, FiniteSets, TLC

\* ------------------------------------------------------------------ bounds
\* Longest desired route list drawn for the route diff.
MaxRoutes == 2
\* Longest subnet_ids / subnet_names list drawn for the association diff.
MaxSubnets == 2
\* How many times the host applies the state declaration in one behaviour.
MaxCalls == 2
\* How many provider calls of one behaviour may fail.
MaxFaults == 2
\* How many changes another writer makes to the route table in one behaviour.
MaxWrites == 2

\* ------------------------------------------------------------ python values
None == "None"
RTrue == "True"
RFalse == "False"
RNone == "None"

\* {}
EmptyDict == [k \in {} |-> None]

\* `x in lst`
InList(x, lst) == \E i \in 1..Len(lst) : lst[i] = x

\* Elements of a list, as a set.
Elems(lst) == {lst[i] : i \in 1..Len(lst)}

\* A one-message comment; '' is <<>>.
Msg(text, about) == <<<<text, about>>>>

\* The ret dict every function starts from.
NewRet == [result |-> RTrue, comment |-> <<>>, changes |-> EmptyDict]

\* {'old': {key: old}, 'new': {key: new}}
Changes(key, old, new) == ("old" :> (key :> old)) @@ ("new" :> (key :> new))

\* Mutant: dest.update(upd), the keys of upd replace those of dest.
DictUpdate_Shallow(dest, upd) == upd @@ dest

\* salt.utils.dictupdate.update(dest, upd): keys of upd are merged into dest,
\* recursively where both values are dicts (here: 'old' and 'new').
DictUpdate(dest, upd) ==
    [k \in (DOMAIN dest) \cup (DOMAIN upd) |->
        IF k \in DOMAIN upd
        THEN IF k \in DOMAIN dest THEN upd[k] @@ dest[k] ELSE upd[k]
        ELSE dest[k]]

\* ------------------------------------------------------------------- routes
route_keys == {"gateway_id", "instance_id", "destination_cidr_block", "interface_id"}

\* Mutant: the route is compared as the state file gave it.
SetDefaults_Skipped(route) == route

\* for r_key in route_keys: route.setdefault(r_key, None)
SetDefaults(route) == route @@ [k \in route_keys |-> None]

\* Lines 651-657: an empty (or omitted) list becomes [], otherwise every
\* route of the list is normalised in place.
NormalizeRoutes(routes) ==
    IF routes = <<>> THEN <<>>
    ELSE [i \in 1..Len(routes) |-> SetDefaults(routes[i])]

\* Mutant: every desired route is created, whether the table has it or not.
RoutesToCreate_All(routes, live) == routes

\* Lines 660-662, on the normalised list.
RoutesToCreate(routes, live) ==
    SelectSeq(routes, LAMBDA route : ~InList(route, live))

\* Mutant: the gateway_id != 'local' test of line 665 is missing.
RoutesToDelete_NoLocalGuard(routes, live) ==
    SelectSeq(live, LAMBDA route : ~InList(route, routes))

\* Mutant: the second loop runs over routes again instead of the live routes.
RoutesToDelete_WrongList(routes, live) ==
    SelectSeq(routes, LAMBDA route :
        ~InList(route, live) /\ route["gateway_id"] # "local")

\* Lines 663-666, on the normalised list.
RoutesToDelete(routes, live) ==
    SelectSeq(live, LAMBDA route :
        ~InList(route, routes) /\ route["gateway_id"] # "local")

\* ------------------------------------------------------------- associations
\* Line 736
AssocSubnetIds(associations) ==
    [i \in 1..Len(associations) |-> associations[i]["subnet_id"]]

\* Line 738
SubnetsToCreate(subnet_ids, associations) ==
    SelectSeq(subnet_ids, LAMBDA x : ~InList(x, AssocSubnetIds(associations)))

\* Mutant: the subnet ids of the associations, not the association ids.
SubnetsToDelete_SubnetIds(subnet_ids, associations) ==
    SelectSeq(AssocSubnetIds(associations), LAMBDA x : ~InList(x, subnet_ids))

\* Line 739
SubnetsToDelete(subnet_ids, associations) ==
    LET kept == SelectSeq(associations,
                          LAMBDA x : ~InList(x["subnet_id"], subnet_ids))
    IN  [i \in 1..Len(kept) |-> kept[i]["id"]]

\* ----------------------------------------------------------------- provider
\* The provider behind __salt__['boto_vpc.*']: one VPC, one internet gateway,
\* named subnets and one route table whose routes are keyed by destination
\* and whose associations bind subnets.
VpcId == "vpc-1"
IgwId == "igw-1"
RouteTableId == "rtb-1"
SubnetName == "sn-b"
SubnetNames == {"sn-a", "sn-b"}
SubnetIdOf(name) ==
    CASE name = "sn-a" -> "subnet-a"
      [] name = "sn-b" -> "subnet-b"
      [] OTHER -> None
AssocIdOf(subnet_id) ==
    CASE subnet_id = "subnet-a" -> "assoc-1"
      [] subnet_id = "subnet-c" -> "assoc-2"
      [] OTHER -> "assoc-3"

Route(cidr, gateway, instance) ==
    [destination_cidr_block |-> cidr, gateway_id |-> gateway,
     instance_id |-> instance, interface_id |-> None]
Assoc(subnet_id) == [id |-> AssocIdOf(subnet_id), subnet_id |-> subnet_id]

\* The route the provider creates with every route table.
LocalRoute == Route("10.0.0.0/16", "local", None)

HasRoute(routes, cidr) ==
    \E i \in 1..Len(routes) : routes[i]["destination_cidr_block"] = cidr
RemoveRoute(routes, cidr) ==
    SelectSeq(routes, LAMBDA r : r["destination_cidr_block"] # cidr)
HasAssocId(assocs, id) == \E i \in 1..Len(assocs) : assocs[i]["id"] = id
HasAssocSubnet(assocs, sn) == \E i \in 1..Len(assocs) : assocs[i]["subnet_id"] = sn
RemoveAssoc(assocs, id) == SelectSeq(assocs, LAMBDA a : a["id"] # id)

\* Response shapes of the provider interface.
\*   "ok"        the call did what it says: {'id': ..} (None when the resource
\*               does not exist), {'exists': ..}, {'created': True, 'id': ..},
\*               {'deleted': True}, True, {'association_id': ..}, a description
\*   "error"     {'error': {'message': ..}} (with created/deleted False)
\*   "refused"   {'created': False} / {'deleted': False} without 'error',
\*               or a bare False
\*   "none"      {'id': None} / {'exists': False}: no resource of that name
\*   "notfound"  describe_route_table's False for a table that does not exist
Failures == {"error", "refused"}

Mutating == {"create", "delete", "create_subnet", "delete_subnet",
             "create_internet_gateway", "delete_internet_gateway",
             "create_route_table", "delete_route_table",
             "create_route", "delete_route",
             "associate_route_table", "disassociate_route_table"}

\* ------------------------------------------------------------------- state
VARIABLES
    aws,            \* provider state
    faults,         \* failed provider calls so far
    writes,         \* changes another writer has made to the route table
    op,             \* the state function the declaration names
    args,           \* its routes, subnet_ids, subnet_names
    test,           \* __opts__['test'] of the current invocation
    ncalls,         \* invocations started
    pre,            \* provider state when the current invocation started
    prev,           \* how the previous invocation went
    pc,             \* position in the current invocation
    ret,            \* ret of the public function
    sub,            \* ret of the private function in progress
    steps,          \* what the private functions that returned have returned
    route_table,    \* _routes_present / _subnets_present: the table read
    routes,         \* _routes_present: routes, normalised
    routes_diff,    \* _routes_present: to_create, to_delete
    subnet_ids,     \* _subnets_present: subnet_ids
    subnets_diff,   \* _subnets_present: to_create, to_delete
    i,              \* index of the loop in progress
    calls           \* provider calls of the current invocation, in order

prov == <<aws, faults, calls>>
decl == <<op, args>>
invo == <<test, ncalls, pre, prev>>
ctrl == <<pc, ret, sub, steps>>
rloc == <<routes, routes_diff>>
sloc == <<subnet_ids, subnets_diff>>
vars == <<aws, faults, writes, op, args, test, ncalls, pre, prev, pc, ret, sub, steps,
          route_table, routes, routes_diff, subnet_ids, subnets_diff, i, calls>>

Ops == {"present", "absent", "subnet_present", "subnet_absent",
        "internet_gateway_present", "internet_gateway_absent",
        "route_table_present", "route_table_absent"}

NoTable == [id |-> None, routes |-> <<>>, associations |-> <<>>]
NoDiff == [computed |-> FALSE, to_create |-> <<>>, to_delete |-> <<>>]
NoPrev == [pc |-> "idle", test |-> FALSE, result |-> RTrue,
           mutated |-> FALSE, faithful |-> TRUE]
NoArgs == [routes |-> <<>>, subnet_ids |-> <<>>, subnet_names |-> <<>>]

\* ---------------------------------------------------- desired and live data
IgwRoute == [destination_cidr_block |-> "0.0.0.0/0", gateway_id |-> "igw-1"]
InstRoute == [destination_cidr_block |-> "0.0.0.0/0", instance_id |-> "i-1"]
NetRoute == [destination_cidr_block |-> "10.0.0.0/16", gateway_id |-> "igw-1",
             instance_id |-> None, interface_id |-> None]

OwnLocalRoute == [destination_cidr_block |-> "10.0.0.0/16", gateway_id |-> "local"]

DesiredRouteLists ==
    {<<>>, <<IgwRoute>>, <<InstRoute>>, <<IgwRoute, NetRoute>>, <<IgwRoute, IgwRoute>>,
     <<OwnLocalRoute, IgwRoute>>}
LiveRouteLists ==
    {<<>>, <<LocalRoute>>, <<LocalRoute, Route("0.0.0.0/0", "igw-1", None)>>,
     <<Route("0.0.0.0/0", "local", None)>>,
     <<LocalRoute, Route("0.0.0.0/0", None, "i-2")>>}
LiveAssocLists ==
    {<<>>, <<Assoc("subnet-a")>>, <<Assoc("subnet-a"), Assoc("subnet-c")>>,
     <<Assoc("subnet-b")>>}
DesiredSubnetIds == {<<>>, <<"subnet-a">>, <<"subnet-a", "subnet-b">>}
DesiredSubnetNames == {<<>>, <<"sn-b">>, <<"sn-x", "sn-b">>, <<"sn-b", "sn-x">>}

BaseAws == [vpc |-> FALSE, igw |-> FALSE, subnets |-> {}, rtb |-> FALSE,
            routes |-> <<>>, assocs |-> <<>>]

\* Provider states an invocation of `o` can meet.
InitAws(o) ==
    CASE o \in {"present", "absent"} ->
            {[BaseAws EXCEPT !.vpc = b] : b \in BOOLEAN}
      [] o \in {"subnet_present", "subnet_absent"} ->
            {[BaseAws EXCEPT !.subnets = s] : s \in {{}, {SubnetName}}}
      [] o \in {"internet_gateway_present", "internet_gateway_absent"} ->
            {[BaseAws EXCEPT !.igw = b] : b \in BOOLEAN}
      [] o = "route_table_absent" ->
            {BaseAws, [BaseAws EXCEPT !.rtb = TRUE, !.routes = <<LocalRoute>>]}
      [] OTHER ->
            {[BaseAws EXCEPT !.subnets = s] : s \in {{}, {SubnetName}}}
            \cup {[BaseAws EXCEPT !.subnets = s, !.rtb = TRUE,
                                  !.routes = r, !.assocs = a] :
                     s \in {{}, {SubnetName}}, r \in LiveRouteLists,
                     a \in LiveAssocLists}

InitArgs(o) ==
    IF o = "route_table_present"
    THEN [routes : DesiredRouteLists, subnet_ids : DesiredSubnetIds,
          subnet_names : DesiredSubnetNames]
    ELSE {NoArgs}

Init ==
    /\ op \in Ops
    /\ aws \in InitAws(op)
    /\ args \in InitArgs(op)
    /\ faults = 0
    /\ writes = 0
    /\ test = FALSE
    /\ ncalls = 0
    /\ pre = aws
    /\ prev = NoPrev
    /\ pc = "idle"
    /\ ret = NewRet
    /\ sub = NewRet
    /\ steps = <<>>
    /\ route_table = NoTable
    /\ routes = <<>>
    /\ routes_diff = NoDiff
    /\ subnet_ids = args["subnet_ids"]
    /\ subnets_diff = NoDiff
    /\ i = 1
    /\ calls = <<>>

\* ------------------------------------------------------------------ helpers
CallRec(fn, arg, resp) == [fn |-> fn, arg |-> arg, resp |-> resp]
Ret(result, comment, changes) ==
    [result |-> result, comment |-> comment, changes |-> changes]

\* Failed calls in a log.
RECURSIVE NFail(_)
NFail(log) ==
    IF log = <<>> THEN 0
    ELSE (IF Head(log)["resp"] \in Failures THEN 1 ELSE 0) + NFail(Tail(log))

MutatingCalls(log) == SelectSeq(log, LAMBDA c : c["fn"] \in Mutating)
Applied(log) == \A k \in 1..Len(log) :
                    log[k]["fn"] \in Mutating => log[k]["resp"] = "ok"

\* A failure the provider may answer with while the fault budget lasts.
Fault(shapes) == IF faults < MaxFaults THEN shapes ELSE {}

\* The host applies the declaration once more, with or without test=True.
Begin(t) ==
    /\ pc \in {"idle", "done", "raised"}
    /\ ncalls < MaxCalls
    /\ test' = t
    /\ ncalls' = ncalls + 1
    /\ pre' = aws
    /\ prev' = [pc |-> pc, test |-> test, result |-> ret["result"],
                mutated |-> MutatingCalls(calls) # <<>>,
                faithful |-> Applied(calls)]
    /\ route_table' = NoTable
    /\ routes' = <<>>
    /\ routes_diff' = NoDiff
    /\ subnet_ids' = args["subnet_ids"]
    /\ subnets_diff' = NoDiff
    /\ i' = 1
    /\ sub' = NewRet
    /\ steps' = <<>>
    /\ UNCHANGED <<decl, writes>>

\* A public function that runs to its end in one step: it returns r
\* (newpc = "done") or raises (newpc = "raised") after the calls of log.
Finish(t, newpc, r, log, newaws) ==
    /\ Begin(t)
    /\ faults + NFail(log) <= MaxFaults
    /\ faults' = faults + NFail(log)
    /\ pc' = newpc
    /\ ret' = r
    /\ calls' = log
    /\ aws' = newaws

\* Mutant: the resource is created whether it exists or not.
NeedsCreate_Always(resp) == TRUE

\* `not r.get('exists')` / `not _id`: the locator found nothing.
NeedsCreate(resp) == resp = "none"

\* What describe / describe_subnet hands back (line 164, 305).
Described(d, key, id) == IF d = "ok" THEN key :> id ELSE "error" :> "message"

\* present, subnet_present, internet_gateway_present: exists?, create,
\* describe (describeFn = "" when the function does not describe).
PresentFlow(t, existsFn, createFn, describeFn, key, exists, id, created) ==
    \E r \in {"ok", "error"} :
        LET c1 == <<CallRec(existsFn, key, IF r = "ok" /\ ~exists THEN "none" ELSE r)>> IN
        IF r = "error"
        THEN Finish(t, "done",
                    Ret(RFalse, Msg("Failed to create", "error"), EmptyDict), c1, aws)
        ELSE IF NeedsCreate(c1[1]["resp"])
        THEN IF t
             THEN Finish(t, "done",
                         Ret(RNone, Msg("is set to be created", key), EmptyDict), c1, aws)
             ELSE \E c \in {"ok", "error", "refused"} :
                    LET c2 == Append(c1, CallRec(createFn, key, c)) IN
                    CASE c = "refused" ->
                            \* r['error'] of a dict without 'error': KeyError
                            Finish(t, "raised", Ret(RFalse, <<>>, EmptyDict), c2, aws)
                      [] c = "error" ->
                            Finish(t, "done",
                                   Ret(RFalse, Msg("Failed to create", "error"), EmptyDict),
                                   c2, aws)
                      [] OTHER ->
                            IF describeFn = ""
                            THEN Finish(t, "done",
                                        Ret(RTrue, Msg("created", key),
                                            Changes(key, None, id)), c2, created)
                            ELSE \E d \in {"ok", "error"} :
                                    Finish(t, "done",
                                           Ret(RTrue, Msg("created", key),
                                               ("old" :> (key :> None))
                                               @@ ("new" :> Described(d, key, id))),
                                           Append(c2, CallRec(describeFn, id, d)), created)
        ELSE Finish(t, "done", Ret(RTrue, Msg("present", key), EmptyDict), c1, aws)

\* absent, subnet_absent, internet_gateway_absent, route_table_absent:
\* get id, delete. errorKeyOnly: the delete's failure is read as
\* `'error' in r` (route_table_absent) instead of `not r['deleted']`.
AbsentFlow(t, getFn, deleteFn, key, exists, id, deleted, errorKeyOnly) ==
    \E r \in {"ok", "error"} :
        LET c1 == <<CallRec(getFn, key, IF r = "ok" /\ ~exists THEN "none" ELSE r)>> IN
        IF r = "error"
        THEN Finish(t, "done",
                    Ret(RFalse, Msg("Failed to delete", "error"), EmptyDict), c1, aws)
        ELSE IF ~exists
        THEN Finish(t, "done", Ret(RTrue, Msg("does not exist", key), EmptyDict), c1, aws)
        ELSE IF t
        THEN Finish(t, "done", Ret(RNone, Msg("is set to be removed", key), EmptyDict),
                    c1, aws)
        ELSE \E d \in {"ok", "error", "refused"} :
                LET c2 == Append(c1, CallRec(deleteFn, key, d)) IN
                CASE d = "error" ->
                        Finish(t, "done",
                               Ret(RFalse, Msg("Failed to delete", "error"), EmptyDict),
                               c2, aws)
                  [] d = "refused" /\ ~errorKeyOnly ->
                        \* r['error'] of a dict without 'error': KeyError
                        Finish(t, "raised", Ret(RFalse, <<>>, EmptyDict), c2, aws)
                  [] OTHER ->
                        Finish(t, "done",
                               Ret(RTrue, Msg("deleted", key), Changes(key, id, None)),
                               c2, IF d = "ok" THEN deleted ELSE aws)

\* ------------------------------------------------- single-resource functions
present ==
    /\ op = "present"
    /\ \E t \in BOOLEAN :
        PresentFlow(t, "exists", "create", "describe", "vpc", aws["vpc"], VpcId,
                    [aws EXCEPT !.vpc = TRUE])

absent ==
    /\ op = "absent"
    /\ \E t \in BOOLEAN :
        AbsentFlow(t, "get_id", "delete", "vpc", aws["vpc"], VpcId,
                   [aws EXCEPT !.vpc = FALSE], FALSE)

subnet_present ==
    /\ op = "subnet_present"
    /\ \E t \in BOOLEAN :
        PresentFlow(t, "subnet_exists", "create_subnet", "describe_subnet", "subnet",
                    SubnetName \in aws["subnets"], SubnetIdOf(SubnetName),
                    [aws EXCEPT !.subnets = @ \cup {SubnetName}])

subnet_absent ==
    /\ op = "subnet_absent"
    /\ \E t \in BOOLEAN :
        AbsentFlow(t, "get_resource_id", "delete_subnet", "subnet",
                   SubnetName \in aws["subnets"], SubnetIdOf(SubnetName),
                   [aws EXCEPT !.subnets = @ \ {SubnetName}], FALSE)

internet_gateway_present ==
    /\ op = "internet_gateway_present"
    /\ \E t \in BOOLEAN :
        PresentFlow(t, "resource_exists", "create_internet_gateway", "",
                    "internet_gateway", aws["igw"], IgwId, [aws EXCEPT !.igw = TRUE])

internet_gateway_absent ==
    /\ op = "internet_gateway_absent"
    /\ \E t \in BOOLEAN :
        AbsentFlow(t, "get_resource_id", "delete_internet_gateway", "internet_gateway",
                   aws["igw"], IgwId, [aws EXCEPT !.igw = FALSE], FALSE)

route_table_absent ==
    /\ op = "route_table_absent"
    /\ \E t \in BOOLEAN :
        AbsentFlow(t, "get_resource_id", "delete_route_table", "route_table",
                   aws["rtb"], RouteTableId,
                   [aws EXCEPT !.rtb = FALSE, !.routes = <<>>, !.assocs = <<>>], TRUE)

\* ------------------------------------------------------ route_table_present
\* One provider call of the invocation in progress and its answer.
Step(fn, arg, resp, fault, newaws) ==
    /\ calls' = Append(calls, CallRec(fn, arg, resp))
    /\ faults' = faults + (IF fault THEN 1 ELSE 0)
    /\ aws' = newaws
    /\ UNCHANGED writes

\* Mutant: the result of the last private function wins.
MergeResult_Last(result, _result) == _result

\* `if not _ret['result']: ret['result'] = _ret['result']`
MergeResult(result, _result) ==
    IF _result \in {RFalse, RNone} THEN _result ELSE result

\* Lines 573-576
Merge1(r, _ret) ==
    Ret(MergeResult(r["result"], _ret["result"]),
        r["comment"] \o _ret["comment"], _ret["changes"])

\* Lines 581-584 and 589-592
Merge(r, _ret) ==
    Ret(MergeResult(r["result"], _ret["result"]),
        r["comment"] \o _ret["comment"], DictUpdate(r["changes"], _ret["changes"]))

\* Lines 577-579: where route_table_present goes after _route_table_present.
AfterStep1(r) == IF r["result"] = RFalse THEN "done" ELSE "routes_describe"

\* Mutant: _subnets_present is called whatever _routes_present returned.
AfterStep2_NoReturn(r) ==
    IF args["subnet_names"] # <<>> THEN "subnets_lookup" ELSE "subnets_describe"

\* Lines 585-587: where it goes after _routes_present.
AfterStep2(r) ==
    IF r["result"] = RFalse THEN "done"
    ELSE IF args["subnet_names"] # <<>> THEN "subnets_lookup" ELSE "subnets_describe"

\* _route_table_present returns _ret.
Return1(_ret) ==
    /\ ret' = Merge1(ret, _ret)
    /\ sub' = NewRet
    /\ steps' = Append(steps, _ret)
    /\ pc' = AfterStep1(Merge1(ret, _ret))

\* _routes_present returns _ret.
Return2(_ret) ==
    /\ ret' = Merge(ret, _ret)
    /\ sub' = NewRet
    /\ steps' = Append(steps, _ret)
    /\ pc' = AfterStep2(Merge(ret, _ret))

\* _subnets_present returns _ret.
Return3(_ret) ==
    /\ ret' = Merge(ret, _ret)
    /\ sub' = NewRet
    /\ steps' = Append(steps, _ret)
    /\ pc' = "done"

\* An exception leaves route_table_present.
Raised == pc' = "raised" /\ UNCHANGED <<ret, sub, steps>>

NonEmpty(diff) == Len(diff["to_create"]) + Len(diff["to_delete"]) > 0

\* Mutant: the loop is left after its first element.
Loop_Once(n, next) == i' = 1 /\ pc' = next

\* The loop at position i of a list of length n goes on, or control moves on.
Loop(n, next) ==
    IF i < n THEN i' = i + 1 /\ pc' = pc ELSE i' = 1 /\ pc' = next

\* What get_resource_id answers for a resource that exists or not.
IdResp(exists) == (IF exists THEN {"ok"} ELSE {"none"}) \cup Fault({"error"})

\* `not deleted` / `not created` (lines 677, 687): true of a bare False; an
\* {'error': ..} structure is a non-empty dict.
NotDone(resp) == resp = "refused"

\* Lines 677-682 and 687-691, after one delete_route / create_route: the
\* failure branch sets result and comment, then the comment is assigned again.
AfterRouteCall(_ret, resp, failText, doneText, cidr) ==
    LET failed == IF NotDone(resp)
                  THEN [_ret EXCEPT !.comment = Msg(failText, cidr),
                                    !.result = RFalse]
                  ELSE _ret
    IN  [failed EXCEPT !.comment = Msg(doneText, cidr)]

\* Mutant: an error answer of associate / disassociate is not looked at.
AssocFailed_Never(r) == FALSE

\* `'error' in r` (lines 750, 763)
AssocFailed(r) == r = "error"

\* Mutant: the routes read before the loops are reported as new.
RoutesChanges_NoReread(old, new) == Changes("routes", old, old)

\* Mutant: the failure reports the associations as changed so far.
AssocError_WithChanges(text, about) ==
    Ret(RFalse, Msg(text, about),
        Changes("subnets_associations", route_table["associations"], aws["assocs"]))

\* Lines 751-755 and 764-768: what _subnets_present returns on an error
\* answer of disassociate / associate.
AssocError(text, about) == Ret(RFalse, Msg(text, about), EmptyDict)

\* Lines 692-695
RoutesChanges(old, new) == Changes("routes", old, new)

\* Mutant: associations are made before the stale ones are removed.
SubnetsNext_CreateFirst(diff, at) ==
    CASE at = "subnets_describe" ->
            IF diff["to_create"] # <<>> THEN "subnets_associate"
            ELSE "subnets_disassociate"
      [] at = "subnets_associate" ->
            IF diff["to_delete"] # <<>> THEN "subnets_disassociate"
            ELSE "subnets_redescribe"
      [] OTHER -> "subnets_redescribe"

\* Lines 747, 757, 770: the order of the loops of _subnets_present.
SubnetsNext(diff, at) ==
    CASE at = "subnets_describe" ->
            IF diff["to_delete"] # <<>> THEN "subnets_disassociate"
            ELSE "subnets_associate"
      [] at = "subnets_disassociate" ->
            IF diff["to_create"] # <<>> THEN "subnets_associate"
            ELSE "subnets_redescribe"
      [] OTHER -> "subnets_redescribe"

\* Mutant: __opts__['test'] is not looked at.
RoutesBranch_NoTest(diff, t) == IF NonEmpty(diff) THEN "apply" ELSE "noop"

\* Lines 667-668: apply the route diff, report it (test=True) or do nothing.
RoutesBranch(diff, t) ==
    IF NonEmpty(diff) THEN (IF t THEN "test" ELSE "apply") ELSE "noop"

\* Lines 741-742: the same for the association diff.
SubnetsBranch(diff, t) ==
    IF NonEmpty(diff) THEN (IF t THEN "test" ELSE "apply") ELSE "noop"

\* Mutant: the `r['id'] is None` test of line 720 is missing.
LookupOutcome_NoneAppended(r) == IF r = "error" THEN "error" ELSE "found"

\* Lines 715-725: what _subnets_present does with one lookup's answer.
LookupOutcome(r) ==
    CASE r = "error" -> "error"
      [] r = "none" -> "missing"
      [] OTHER -> "found"

\* What describe_route_table answers.
DescribeResp == (IF aws["rtb"] THEN {"ok"} ELSE {"notfound"}) \cup Fault({"error"})
TableRead == [id |-> RouteTableId, routes |-> aws["routes"],
              associations |-> aws["assocs"]]

\* Lines 564-570
route_table_present ==
    /\ op = "route_table_present"
    /\ \E t \in BOOLEAN : Begin(t)
    /\ pc' = "rtp_get_id"
    /\ ret' = NewRet
    /\ calls' = <<>>
    /\ UNCHANGED <<aws, faults>>

\* Lines 599-619, 632-633
_route_table_present_get_id ==
    /\ pc = "rtp_get_id"
    /\ \E r \in IdResp(aws["rtb"]) :
        /\ Step("get_resource_id", "route_table", r, r = "error", aws)
        /\ IF r = "error"
           THEN Return1(Ret(RFalse, Msg("Failed to create route table", "error"),
                            EmptyDict))
           ELSE IF NeedsCreate(r)     \* not _id
           THEN IF test
                THEN Return1(Ret(RNone, Msg("Route table is set to be created",
                                            "route_table"), EmptyDict))
                ELSE pc' = "rtp_create" /\ UNCHANGED <<ret, sub, steps>>
           ELSE Return1(Ret(RTrue, Msg("Route table present", RouteTableId), EmptyDict))
    /\ UNCHANGED <<decl, invo, route_table, rloc, sloc, i>>

\* Lines 621-631
_route_table_present_create ==
    /\ pc = "rtp_create"
    /\ \E r \in {"ok"} \cup Fault(Failures) :
        /\ Step("create_route_table", "route_table", r, r # "ok",
                IF r = "ok"
                THEN [aws EXCEPT !.rtb = TRUE, !.routes = <<LocalRoute>>,
                                 !.assocs = <<>>]
                ELSE aws)
        /\ CASE r = "refused" -> Raised    \* r['error']: KeyError
             [] r = "error" ->
                    Return1(Ret(RFalse, Msg("Failed to create route table", "error"),
                                EmptyDict))
             [] OTHER ->
                    Return1(Ret(RTrue, Msg("Route table created", "route_table"),
                                Changes("route_table", None, RouteTableId)))
    /\ UNCHANGED <<decl, invo, route_table, rloc, sloc, i>>

\* Lines 637-672, 696
_routes_present_describe ==
    /\ pc = "routes_describe"
    /\ \E r \in DescribeResp :
        /\ Step("describe_route_table", "routes", r, r = "error", aws)
        /\ CASE r = "notfound" ->     \* 'error' in False: TypeError
                    Raised /\ UNCHANGED <<route_table, rloc>>
             [] r = "error" ->
                    /\ Return2(Ret(RFalse, Msg("Could not retrieve configuration",
                                               "error"), EmptyDict))
                    /\ UNCHANGED <<route_table, rloc>>
             [] OTHER ->
                    LET n == NormalizeRoutes(args["routes"])
                        d == [computed |-> TRUE,
                              to_create |-> RoutesToCreate(n, TableRead["routes"]),
                              to_delete |-> RoutesToDelete(n, TableRead["routes"])]
                    IN  /\ route_table' = TableRead
                        /\ routes' = n
                        /\ routes_diff' = d
                        /\ CASE RoutesBranch(d, test) = "test" ->
                                    Return2(Ret(RNone, Msg("set to have routes modified",
                                                           "routes"), EmptyDict))
                             [] RoutesBranch(d, test) = "apply" ->
                                    /\ pc' = IF d["to_delete"] # <<>>
                                             THEN "routes_delete" ELSE "routes_create"
                                    /\ UNCHANGED <<ret, sub, steps>>
                             [] OTHER -> Return2(NewRet)
    /\ UNCHANGED <<decl, invo, sloc, i>>

\* Lines 673-682, one delete_route
_routes_present_delete ==
    /\ pc = "routes_delete"
    /\ LET cidr == routes_diff["to_delete"][i]["destination_cidr_block"]
           there == HasRoute(aws["routes"], cidr)
       IN  \E deleted \in (IF there THEN {"ok"} \cup Fault(Failures) ELSE Failures) :
            /\ Step("delete_route", cidr, deleted, there /\ deleted # "ok",
                    IF deleted = "ok"
                    THEN [aws EXCEPT !.routes = RemoveRoute(@, cidr)] ELSE aws)
            /\ sub' = AfterRouteCall(sub, deleted, "Failed to delete route",
                                     "Deleted route", cidr)
    /\ Loop(Len(routes_diff["to_delete"]),
            IF routes_diff["to_create"] # <<>>
            THEN "routes_create" ELSE "routes_redescribe")
    /\ UNCHANGED <<decl, invo, ret, steps, route_table, rloc, sloc>>

\* Lines 683-691, one create_route
_routes_present_create ==
    /\ pc = "routes_create"
    /\ LET r == routes_diff["to_create"][i]
           cidr == r["destination_cidr_block"]
           free == ~HasRoute(aws["routes"], cidr)
       IN  \E created \in (IF free THEN {"ok"} \cup Fault(Failures) ELSE Failures) :
            /\ Step("create_route", cidr, created, free /\ created # "ok",
                    IF created = "ok"
                    THEN [aws EXCEPT !.routes = Append(@, r)] ELSE aws)
            /\ sub' = AfterRouteCall(sub, created, "Failed to create route",
                                     "Created route", cidr)
    /\ Loop(Len(routes_diff["to_create"]), "routes_redescribe")
    /\ UNCHANGED <<decl, invo, ret, steps, route_table, rloc, sloc>>

\* Lines 692-696
_routes_present_redescribe ==
    /\ pc = "routes_redescribe"
    /\ \E r \in DescribeResp :
        /\ Step("describe_route_table", "routes", r, r = "error", aws)
        /\ IF r = "ok"
           THEN Return2([sub EXCEPT !.changes =
                            RoutesChanges(route_table["routes"], aws["routes"])])
           ELSE Raised     \* route['routes']: KeyError / TypeError
    /\ UNCHANGED <<decl, invo, route_table, rloc, sloc, i>>

\* Lines 700-725, one get_resource_id('subnet', name=i)
_subnets_present_lookup ==
    /\ pc = "subnets_lookup"
    /\ LET name == args["subnet_names"][i] IN
       \E r \in IdResp(name \in aws["subnets"]) :
        /\ Step("get_resource_id", name, r, r = "error", aws)
        /\ CASE LookupOutcome(r) = "error" ->
                    /\ Return3(Ret(RFalse, Msg("Error looking up subnet ids", "error"),
                                   EmptyDict))
                    /\ UNCHANGED <<subnet_ids, i>>
             [] LookupOutcome(r) = "missing" ->      \* r['id'] is None
                    /\ Return3(Ret(RFalse, Msg("Subnet does not exist", name),
                                   EmptyDict))
                    /\ UNCHANGED <<subnet_ids, i>>
             [] OTHER ->
                    /\ subnet_ids' = Append(subnet_ids, SubnetIdOf(name))
                    /\ Loop(Len(args["subnet_names"]), "subnets_describe")
                    /\ UNCHANGED <<ret, sub, steps>>
    /\ UNCHANGED <<decl, invo, route_table, rloc, subnets_diff>>

\* Lines 727-746, 774
_subnets_present_describe ==
    /\ pc = "subnets_describe"
    /\ \E r \in DescribeResp :
        /\ Step("describe_route_table", "associations", r, r = "error", aws)
        /\ CASE r = "notfound" ->     \* `not route_table`
                    /\ Return3(Ret(RFalse, Msg("Could not retrieve configuration",
                                               "route_table"), EmptyDict))
                    /\ UNCHANGED <<route_table, subnets_diff>>
             [] r = "error" ->        \* route_table['associations']: KeyError
                    Raised /\ UNCHANGED <<route_table, subnets_diff>>
             [] OTHER ->
                    LET d == [computed |-> TRUE,
                              to_create |-> SubnetsToCreate(subnet_ids,
                                                TableRead["associations"]),
                              to_delete |-> SubnetsToDelete(subnet_ids,
                                                TableRead["associations"])]
                    IN  /\ route_table' = TableRead
                        /\ subnets_diff' = d
                        /\ CASE SubnetsBranch(d, test) = "test" ->
                                    Return3(Ret(RNone,
                                                Msg("Subnet associations set to be modified",
                                                    "route_table"), EmptyDict))
                             [] SubnetsBranch(d, test) = "apply" ->
                                    /\ pc' = SubnetsNext(d, pc)
                                    /\ UNCHANGED <<ret, sub, steps>>
                             [] OTHER -> Return3(NewRet)
    /\ UNCHANGED <<decl, invo, rloc, subnet_ids, i>>

\* Lines 747-756, one disassociate_route_table
_subnets_present_disassociate ==
    /\ pc = "subnets_disassociate"
    /\ LET r_asc == subnets_diff["to_delete"][i]
           there == HasAssocId(aws["assocs"], r_asc)
       IN  \E r \in (IF there THEN {"ok"} \cup Fault({"error"}) ELSE {"error"}) :
            /\ Step("disassociate_route_table", r_asc, r, there /\ r # "ok",
                    IF r = "ok"
                    THEN [aws EXCEPT !.assocs = RemoveAssoc(@, r_asc)] ELSE aws)
            /\ IF AssocFailed(r)
               THEN /\ Return3(AssocError("Failed to dissociate", r_asc))
                    /\ UNCHANGED i
               ELSE /\ sub' = [sub EXCEPT !.comment = Msg("Dissociated subnet", r_asc)]
                    /\ Loop(Len(subnets_diff["to_delete"]), SubnetsNext(subnets_diff, pc))
                    /\ UNCHANGED <<ret, steps>>
    /\ UNCHANGED <<decl, invo, route_table, rloc, sloc>>

\* Lines 757-769, one associate_route_table
_subnets_present_associate ==
    /\ pc = "subnets_associate"
    /\ LET sn == subnets_diff["to_create"][i]
           free == ~HasAssocSubnet(aws["assocs"], sn)
       IN  \E r \in (IF free THEN {"ok"} \cup Fault({"error"}) ELSE {"error"}) :
            /\ Step("associate_route_table", sn, r, free /\ r # "ok",
                    IF r = "ok"
                    THEN [aws EXCEPT !.assocs = Append(@, Assoc(sn))] ELSE aws)
            /\ IF AssocFailed(r)
               THEN /\ Return3(AssocError("Failed to associate subnet", sn))
                    /\ UNCHANGED i
               ELSE /\ sub' = [sub EXCEPT !.comment = Msg("Associated subnet", sn)]
                    /\ Loop(Len(subnets_diff["to_create"]), SubnetsNext(subnets_diff, pc))
                    /\ UNCHANGED <<ret, steps>>
    /\ UNCHANGED <<decl, invo, route_table, rloc, sloc>>

\* Lines 770-774
_subnets_present_redescribe ==
    /\ pc = "subnets_redescribe"
    /\ \E r \in DescribeResp :
        /\ Step("describe_route_table", "associations", r, r = "error", aws)
        /\ IF r = "ok"
           THEN Return3([sub EXCEPT !.changes =
                            Changes("subnets_associations",
                                    route_table["associations"], aws["assocs"])])
           ELSE Raised     \* new_sub['associations']: KeyError / TypeError
    /\ UNCHANGED <<decl, invo, route_table, rloc, sloc, i>>

\* ------------------------------------------------------------ specification
Next ==
    \/ present
    \/ absent
    \/ subnet_present
    \/ subnet_absent
    \/ internet_gateway_present
    \/ internet_gateway_absent
    \/ route_table_absent
    \/ route_table_present
    \/ _route_table_present_get_id
    \/ _route_table_present_create
    \/ _routes_present_describe
    \/ _routes_present_delete
    \/ _routes_present_create
    \/ _routes_present_redescribe
    \/ _subnets_present_lookup
    \/ _subnets_present_describe
    \/ _subnets_present_disassociate
    \/ _subnets_present_associate
    \/ _subnets_present_redescribe

Spec == Init /\ [][Next]_vars

\* ------------------------------------------------------------ another writer
\* A route another writer may add to the table.
ForeignRoute == Route("192.168.0.0/24", None, "i-9")

\* The provider states one change of another writer leads to: a route other
\* than the local one or an association is removed, or a route is added.
ExternalChanges(a) ==
    {[a EXCEPT !.routes = RemoveRoute(@, a["routes"][k]["destination_cidr_block"])] :
        k \in {j \in 1..Len(a["routes"]) : a["routes"][j]["gateway_id"] # "local"}}
    \cup {[a EXCEPT !.assocs = RemoveAssoc(@, a["assocs"][k]["id"])] :
                k \in 1..Len(a["assocs"])}
    \cup (IF HasRoute(a["routes"], ForeignRoute["destination_cidr_block"]) THEN {}
          ELSE {[a EXCEPT !.routes = Append(@, ForeignRoute)]})

\* Another writer changes the route table while route_table_present runs.
ExternalWriter ==
    /\ pc \notin {"idle", "done", "raised"}
    /\ writes < MaxWrites
    /\ aws["rtb"]
    /\ \E a \in ExternalChanges(aws) : aws' = a
    /\ writes' = writes + 1
    /\ UNCHANGED <<faults, calls, decl, invo, ctrl, route_table, rloc, sloc, i>>

\* route_table_present with another writer at work, over a table that is
\* absent or has a default route and associations of its own.
RaceAws ==
    {[BaseAws EXCEPT !.subnets = {SubnetName}]}
    \cup {[BaseAws EXCEPT !.subnets = {SubnetName}, !.rtb = TRUE,
                          !.routes = r, !.assocs = a] :
            r \in {<<LocalRoute, Route("0.0.0.0/0", "igw-1", None)>>,
                   <<LocalRoute, Route("0.0.0.0/0", None, "i-2")>>},
            a \in {<<Assoc("subnet-a")>>, <<Assoc("subnet-a"), Assoc("subnet-c")>>}}
RaceArgs ==
    [routes : {<<>>, <<IgwRoute>>},
     subnet_ids : {<<"subnet-a">>, <<"subnet-a", "subnet-b">>},
     subnet_names : {<<>>, <<"sn-b">>}]

InitRace ==
    /\ op = "route_table_present"
    /\ aws \in RaceAws
    /\ args \in RaceArgs
    /\ faults = MaxFaults      \* no provider call fails on its own account
    /\ writes = 0
    /\ test = FALSE
    /\ ncalls = 0
    /\ pre = aws
    /\ prev = NoPrev
    /\ pc = "idle"
    /\ ret = NewRet
    /\ sub = NewRet
    /\ steps = <<>>
    /\ route_table = NoTable
    /\ routes = <<>>
    /\ routes_diff = NoDiff
    /\ subnet_ids = args["subnet_ids"]
    /\ subnets_diff = NoDiff
    /\ i = 1
    /\ calls = <<>>

NextRace ==
    \/ route_table_present
    \/ _route_table_present_get_id
    \/ _route_table_present_create
    \/ _routes_present_describe
    \/ _routes_present_delete
    \/ _routes_present_create
    \/ _routes_present_redescribe
    \/ _subnets_present_lookup
    \/ _subnets_present_describe
    \/ _subnets_present_disassociate
    \/ _subnets_present_associate
    \/ _subnets_present_redescribe
    \/ ExternalWriter

SpecRace == InitRace /\ [][NextRace]_vars

\* ------------------------------------------------- the route diff, on its own
\* _routes_present from its describe_route_table on, for every desired list of
\* at most MaxRoutes routes over RawRoutes and every live list over the two
\* destinations: the state after _route_table_present found the table.
Cidrs == <<"10.0.0.0/16", "0.0.0.0/0">>

\* A desired route as the state file gives it: only the keys it names.
RawRoute(cidr, gateway, instance, interface) ==
    [k \in {"destination_cidr_block"}
            \cup (IF gateway = "absent" THEN {} ELSE {"gateway_id"})
            \cup (IF instance = "absent" THEN {} ELSE {"instance_id"})
            \cup (IF interface = "absent" THEN {} ELSE {"interface_id"}) |->
        CASE k = "destination_cidr_block" -> cidr
          [] k = "gateway_id" -> gateway
          [] k = "instance_id" -> instance
          [] OTHER -> interface]

RawRoutes ==
    {RawRoute(c, g, n, f) : c \in {"10.0.0.0/16", "0.0.0.0/0"},
                            g \in {"absent", "local", "igw-1"},
                            n \in {"absent", "i-1"}, f \in {"absent", None}}

Lists(S, n) == UNION {[1..k -> S] : k \in 0..n}

\* A live list: per destination no route, or one to a target.
LiveTargets == {"absent", "local", "igw-1", "i-1"}
LiveList(choice) ==
    LET all == [k \in 1..Len(Cidrs) |->
                    IF choice[k] = "i-1" THEN Route(Cidrs[k], None, "i-1")
                    ELSE Route(Cidrs[k], choice[k], None)]
    IN  SelectSeq(all, LAMBDA r : r["gateway_id"] # "absent")
AllLiveRouteLists == {LiveList(ch) : ch \in [1..Len(Cidrs) -> LiveTargets]}

Step1Found == Ret(RTrue, Msg("Route table present", RouteTableId), EmptyDict)
TableFound == Merge1(NewRet, Step1Found)

InitRoutes ==
    /\ op = "route_table_present"
    /\ \E live \in AllLiveRouteLists :
        aws = [BaseAws EXCEPT !.rtb = TRUE, !.routes = live]
    /\ \E desired \in Lists(RawRoutes, MaxRoutes) :
        args = [NoArgs EXCEPT !.routes = desired]
    /\ faults = 0
    /\ writes = 0
    /\ test \in BOOLEAN
    /\ ncalls = 1
    /\ pre = aws
    /\ prev = NoPrev
    /\ pc = "routes_describe"
    /\ ret = TableFound
    /\ sub = NewRet
    /\ steps = <<Step1Found>>
    /\ route_table = NoTable
    /\ routes = <<>>
    /\ routes_diff = NoDiff
    /\ subnet_ids = <<>>
    /\ subnets_diff = NoDiff
    /\ i = 1
    /\ calls = <<CallRec("get_resource_id", "route_table", "ok")>>

SpecRoutes == InitRoutes /\ [][_routes_present_describe]_vars

\* ------------------------------------------- the association diff, on its own
\* _subnets_present, for every subnet_ids and subnet_names of at most
\* MaxSubnets entries and every live association list: the state after
\* _routes_present found nothing to change.
SubnetIds == {"subnet-a", "subnet-b", "subnet-c"}
AssocOrder == <<"subnet-a", "subnet-c", "subnet-b">>
AssocList(S) ==
    LET kept == SelectSeq(AssocOrder, LAMBDA sn : sn \in S)
    IN  [k \in 1..Len(kept) |-> Assoc(kept[k])]
AllLiveAssocLists == {AssocList(S) : S \in SUBSET SubnetIds}

RoutesKept == Merge(TableFound, NewRet)

InitSubnets ==
    /\ op = "route_table_present"
    /\ \E live \in AllLiveAssocLists :
        aws = [BaseAws EXCEPT !.rtb = TRUE, !.routes = <<LocalRoute>>,
                              !.assocs = live, !.subnets = SubnetNames]
    /\ \E ids \in Lists(SubnetIds, MaxSubnets), names \in Lists(SubnetNames, MaxSubnets) :
        args = [NoArgs EXCEPT !.subnet_ids = ids, !.subnet_names = names]
    /\ faults = 0
    /\ writes = 0
    /\ test \in BOOLEAN
    /\ ncalls = 1
    /\ pre = aws
    /\ prev = NoPrev
    /\ pc = AfterStep2(RoutesKept)
    /\ ret = RoutesKept
    /\ sub = NewRet
    /\ steps = <<Step1Found, NewRet>>
    /\ route_table = TableRead
    /\ routes = <<>>
    /\ routes_diff = [NoDiff EXCEPT !.computed = TRUE]
    /\ subnet_ids = args["subnet_ids"]
    /\ subnets_diff = NoDiff
    /\ i = 1
    /\ calls = <<CallRec("get_resource_id", "route_table", "ok"),
                 CallRec("describe_route_table", "routes", "ok")>>

SpecSubnets ==
    InitSubnets /\ [][_subnets_present_lookup \/ _subnets_present_describe]_vars

\* =================================================================== claims
IsRtp == op = "route_table_present"
CallsOf(fns) == SelectSeq(calls, LAMBDA c : c["fn"] \in fns)
RouteField(d, k) == IF k \in DOMAIN d THEN d[k] ELSE None
SameRoute(d, l) == \A k \in route_keys : RouteField(d, k) = RouteField(l, k)
FullRoute(d) == [k \in route_keys |-> RouteField(d, k)]

\* C1: a live route whose gateway_id is "local" is never in to_delete, and
\* no delete_route of an invocation names the destination of a route that
\* was live with gateway_id "local" when the invocation started, whatever
\* the desired routes are (none included).
C1_LocalRouteNeverDeleted ==
    /\ \A k \in 1..Len(routes_diff["to_delete"]) :
            routes_diff["to_delete"][k]["gateway_id"] # "local"
    /\ \A k \in 1..Len(calls) :
            calls[k]["fn"] = "delete_route" =>
                \A j \in 1..Len(pre["routes"]) :
                    pre["routes"][j]["gateway_id"] = "local" =>
                        pre["routes"][j]["destination_cidr_block"] # calls[k]["arg"]

\* A run with no desired routes deleted a route of a table that has a local
\* route, and the local route is still there.
C1_Witness ==
    /\ IsRtp /\ pc = "done" /\ args["routes"] = <<>>
    /\ InList(LocalRoute, pre["routes"])
    /\ InList(LocalRoute, aws["routes"])
    /\ CallsOf({"delete_route"}) # <<>>

\* C2: while __opts__['test'] is set, the invocation has issued no mutating
\* provider call and the provider state is the one it started from.
C2_DryRunNoMutation ==
    test => (CallsOf(Mutating) = <<>> /\ aws = pre)

\* A dry run of route_table_present that found both diffs' worth of work:
\* it got to the association diff, which is not empty, and returned None.
C2_Witness ==
    /\ IsRtp /\ test /\ pc = "done" /\ ret["result"] = RNone
    /\ subnets_diff["computed"] /\ NonEmpty(subnets_diff)
    /\ routes_diff["computed"]

\* The second of two successive real runs of route_table_present.
SecondRun == IsRtp /\ ncalls >= 2 /\ ~test /\ ~prev["test"]
NoOpRun ==
    /\ routes_diff["computed"] => ~NonEmpty(routes_diff)
    /\ subnets_diff["computed"] => ~NonEmpty(subnets_diff)
    /\ CallsOf(Mutating) = <<>>

\* C3, as claimed: if the provider applied every mutation of the first run,
\* the second run finds both diffs empty and issues no mutating call.
C3_IdempotentIfApplied ==
    (SecondRun /\ prev["faithful"]) => NoOpRun

\* C3, amended: if the first run returned True and the provider applied
\* every mutation of it, the second run finds both diffs empty and issues
\* no mutating call.
C3_IdempotentAfterSuccess ==
    (SecondRun /\ prev["faithful"] /\ prev["pc"] = "done" /\ prev["result"] = RTrue)
        => NoOpRun

\* The second run, after a first one that changed the provider and returned
\* True, computed both diffs and returned.
C3_Witness ==
    /\ SecondRun /\ prev["faithful"] /\ prev["pc"] = "done" /\ prev["result"] = RTrue
    /\ prev["mutated"]
    /\ pc = "done" /\ routes_diff["computed"] /\ subnets_diff["computed"]
    /\ args["routes"] # <<>> /\ subnet_ids # <<>>

\* _route_table_present answered the dry run with None: no table, test set.
Step1Unknown == IsRtp /\ test /\ Len(calls) >= 1 /\ calls[1]["resp"] = "none"

\* C4: after the dry-run None of step 1 no further provider call is issued
\* (no describe_route_table, no subnet lookup) and route_table_present
\* returns that None.
C4_DryRunSkipsSteps ==
    Step1Unknown =>
        /\ Len(calls) = 1
        /\ pc # "raised"
        /\ pc = "done" => ret["result"] = RNone

\* Step 1 failed: the id lookup answered with an error, or create_route_table
\* did not report created.
Step1LookupFailed == IsRtp /\ Len(calls) >= 1 /\ calls[1]["resp"] = "error"
Step1CreateFailed ==
    /\ IsRtp /\ Len(calls) >= 2
    /\ calls[2]["fn"] = "create_route_table" /\ calls[2]["resp"] \in Failures

\* C5: when step 1 fails, route_table_present returns False and the failed
\* call is the last provider call of the invocation.
C5_Step1FailureReturnsFalse ==
    /\ Step1LookupFailed => (pc = "done" /\ ret["result"] = RFalse /\ Len(calls) = 1)
    /\ Step1CreateFailed => (pc = "done" /\ ret["result"] = RFalse /\ Len(calls) = 2)

\* The k-th call is a subnet name lookup that did not resolve.
Unresolved(k) ==
    /\ calls[k]["fn"] = "get_resource_id" /\ calls[k]["arg"] # "route_table"
    /\ calls[k]["resp"] \in {"error", "none"}

\* C6: once a subnet name has failed to resolve, that lookup is the last
\* provider call, no associate or disassociate call has been issued and
\* route_table_present has returned False.
C6_UnresolvedNameAborts ==
    \A k \in 1..Len(calls) :
        (IsRtp /\ Unresolved(k)) =>
            /\ k = Len(calls)
            /\ pc = "done" /\ ret["result"] = RFalse
            /\ CallsOf({"associate_route_table", "disassociate_route_table"}) = <<>>

\* A real run whose second name does not exist, against associations that
\* the desired subnets differ from.
C6_Witness ==
    /\ IsRtp /\ ~test /\ pc = "done"
    /\ args["subnet_names"] = <<"sn-b", "sn-x">>
    /\ Unresolved(Len(calls))
    /\ subnet_ids = <<"subnet-a", "subnet-b">>
    /\ pre["assocs"] = <<Assoc("subnet-a"), Assoc("subnet-c")>>

\* C7: to_create is the desired routes, all four fields filled in, that no
\* live route equals field by field (an omitted field equal to None);
\* to_delete is the live routes that no desired route equals and whose
\* gateway_id is not "local". The igw-1 default route against a local
\* default route is created and nothing is deleted.
C7_RouteDiff ==
    routes_diff["computed"] =>
        LET desired == Elems(args["routes"])
            live == Elems(route_table["routes"])
        IN  /\ Elems(routes_diff["to_create"]) =
                {FullRoute(d) : d \in {x \in desired :
                                        ~\E l \in live : SameRoute(x, l)}}
            /\ Elems(routes_diff["to_delete"]) =
                {l \in live : /\ l["gateway_id"] # "local"
                              /\ ~\E d \in desired : SameRoute(d, l)}
            /\ (/\ args["routes"] = <<IgwRoute>>
                /\ route_table["routes"] = <<Route("0.0.0.0/0", "local", None)>>)
                => /\ routes_diff["to_create"] = <<Route("0.0.0.0/0", "igw-1", None)>>
                   /\ routes_diff["to_delete"] = <<>>

\* The scenario: igw-1 desired, the live default route is local.
C7_Witness ==
    /\ routes_diff["computed"]
    /\ args["routes"] = <<IgwRoute>>
    /\ route_table["routes"] = <<Route("0.0.0.0/0", "local", None)>>
    /\ routes_diff["to_create"] = <<Route("0.0.0.0/0", "igw-1", None)>>
    /\ routes_diff["to_delete"] = <<>>

\* C8: to_create and to_delete have no route in common.
C8_DiffDisjoint ==
    Elems(routes_diff["to_create"]) \cap Elems(routes_diff["to_delete"]) = {}

\* Both lists are non-empty, and a desired route that names two of its
\* fields matched a live route.
C8_Witness ==
    /\ routes_diff["computed"]
    /\ routes_diff["to_create"] # <<>> /\ routes_diff["to_delete"] # <<>>
    /\ \E k \in 1..Len(args["routes"]) :
        /\ DOMAIN args["routes"][k] # route_keys
        /\ InList(routes[k], route_table["routes"])

\* Desired subnet ids: those given and those the names resolve to.
DesiredSubnets ==
    Elems(args["subnet_ids"]) \cup {SubnetIdOf(n) : n \in Elems(args["subnet_names"])}

\* C9: to_create is the desired subnet ids without a live association;
\* to_delete is the ids of the live associations of other subnets. Desired
\* subnet-a and subnet-b against assoc-1 (subnet-a) and assoc-2 (subnet-c)
\* give to_create = [subnet-b], to_delete = [assoc-2].
C9_AssociationDiff ==
    subnets_diff["computed"] =>
        LET live == Elems(route_table["associations"])
        IN  /\ Elems(subnets_diff["to_create"]) =
                {x \in DesiredSubnets : ~\E a \in live : a["subnet_id"] = x}
            /\ Elems(subnets_diff["to_delete"]) =
                {a["id"] : a \in {b \in live : b["subnet_id"] \notin DesiredSubnets}}
            /\ (/\ subnet_ids = <<"subnet-a", "subnet-b">>
                /\ route_table["associations"] =
                        <<Assoc("subnet-a"), Assoc("subnet-c")>>)
                => /\ subnets_diff["to_create"] = <<"subnet-b">>
                   /\ subnets_diff["to_delete"] = <<"assoc-2">>

\* The scenario, with subnet-b given by name.
C9_Witness ==
    /\ subnets_diff["computed"]
    /\ args["subnet_ids"] = <<"subnet-a">> /\ args["subnet_names"] = <<"sn-b">>
    /\ route_table["associations"] = <<Assoc("subnet-a"), Assoc("subnet-c")>>
    /\ subnets_diff["to_create"] = <<"subnet-b">>
    /\ subnets_diff["to_delete"] = <<"assoc-2">>

\* C10: no public function raises.
C10_NeverRaises == pc # "raised"

\* The delete_route and create_route calls of the invocation, in order.
RouteCalls == CallsOf({"delete_route", "create_route"})
IssuedRouteCalls ==
    [k \in 1..Len(RouteCalls) |-> <<RouteCalls[k]["fn"], RouteCalls[k]["arg"]>>]
PlannedRouteCalls ==
    LET td == routes_diff["to_delete"]
        tc == routes_diff["to_create"]
    IN  [k \in 1..(Len(td) + Len(tc)) |->
            IF k <= Len(td)
            THEN <<"delete_route", td[k]["destination_cidr_block"]>>
            ELSE <<"create_route", tc[k - Len(td)]["destination_cidr_block"]>>]
SomeRouteCallFailed == \E k \in 1..Len(RouteCalls) : RouteCalls[k]["resp"] \in Failures

\* Both loops of a real _routes_present are over.
RoutesApplied == IsRtp /\ ~test /\ pc = "routes_redescribe"

\* C11: when the loops of a real _routes_present are over, delete_route has
\* been called once for every route of to_delete, then create_route once for
\* every route of to_create, whatever the calls answered, and the result of
\* the step is False exactly when one of these calls failed.
C11_AllRouteCallsAndResult ==
    RoutesApplied =>
        /\ IssuedRouteCalls = PlannedRouteCalls
        /\ sub["result"] = RFalse <=> SomeRouteCallFailed

\* C12: once _routes_present has returned, its comment and the comment of
\* route_table_present hold the failure message of every route whose
\* delete_route or create_route call failed.
C12_FailuresReported ==
    (IsRtp /\ Len(steps) >= 2) =>
        \A k \in 1..Len(RouteCalls) :
            RouteCalls[k]["resp"] \in Failures =>
                LET m == <<IF RouteCalls[k]["fn"] = "delete_route"
                           THEN "Failed to delete route"
                           ELSE "Failed to create route", RouteCalls[k]["arg"]>>
                IN  InList(m, steps[2]["comment"]) /\ InList(m, ret["comment"])

\* The results of the private functions that returned.
StepResults == {steps[k]["result"] : k \in 1..Len(steps)}
MostSevere(results) ==
    IF RFalse \in results THEN RFalse
    ELSE IF RNone \in results THEN RNone ELSE RTrue

\* C13: the result route_table_present returns is the most severe result of
\* the private functions it ran: False over None over True.
C13_MostSevereResult ==
    (IsRtp /\ pc = "done") => ret["result"] = MostSevere(StepResults)

\* A dry run whose routes are to be modified (None) and whose associations
\* are as desired (True) returns None.
C13_Witness ==
    /\ IsRtp /\ pc = "done" /\ Len(steps) = 3
    /\ steps[2]["result"] = RNone /\ steps[3]["result"] = RTrue
    /\ ret["result"] = RNone

\* C14: no associate_route_table call of an invocation precedes a
\* disassociate_route_table call of it.
C14_DisassociateBeforeAssociate ==
    \A j, k \in 1..Len(calls) :
        (j < k /\ calls[j]["fn"] = "associate_route_table")
            => calls[k]["fn"] # "disassociate_route_table"

\* A real run that removed an association and made one.
C14_Witness ==
    /\ IsRtp /\ ~test /\ pc = "done"
    /\ CallsOf({"disassociate_route_table"}) # <<>>
    /\ CallsOf({"associate_route_table"}) # <<>>

AssocCalls == CallsOf({"associate_route_table", "disassociate_route_table"})
AssocPlanned == Len(subnets_diff["to_delete"]) + Len(subnets_diff["to_create"])

\* C15, as claimed: a real _subnets_present with a non-empty diff that has
\* returned has attempted every operation of to_delete and to_create, and
\* its result is False if one of them reported an error.
C15_AssocErrorsAccumulated ==
    (IsRtp /\ ~test /\ pc = "done" /\ subnets_diff["computed"]
           /\ NonEmpty(subnets_diff)) =>
        /\ Len(AssocCalls) = AssocPlanned
        /\ (\E k \in 1..Len(AssocCalls) : AssocCalls[k]["resp"] = "error")
                => ret["result"] = RFalse

\* C15, amended: an associate or disassociate call that reports an error is
\* the last provider call of the invocation, and _subnets_present and
\* route_table_present return False.
C15_AssocErrorAborts ==
    \A k \in 1..Len(calls) :
        (/\ calls[k]["fn"] \in {"associate_route_table", "disassociate_route_table"}
         /\ calls[k]["resp"] = "error") =>
            /\ k = Len(calls)
            /\ pc = "done" /\ ret["result"] = RFalse
            /\ Len(steps) = 3 /\ steps[3]["result"] = RFalse

\* A disassociate call reported an error and the association still to be
\* made was not attempted.
C15_Witness ==
    /\ IsRtp /\ ~test /\ pc = "done"
    /\ subnets_diff["to_create"] # <<>>
    /\ Len(AssocCalls) = 1 /\ AssocCalls[1]["fn"] = "disassociate_route_table"
    /\ AssocCalls[1]["resp"] = "error"
    /\ pre["assocs"] = aws["assocs"]

PresentOps == {"present", "subnet_present", "internet_gateway_present",
               "route_table_present"}
AbsentOps == {"absent", "subnet_absent", "internet_gateway_absent",
              "route_table_absent"}
SingleOps == Ops \ {"route_table_present"}
CreateFns == {"create", "create_subnet", "create_internet_gateway",
              "create_route_table"}
DeleteFns == {"delete", "delete_subnet", "delete_internet_gateway",
              "delete_route_table"}

\* The first call of an invocation is the locator's; what it answered.
Located(resp) == Len(calls) >= 1 /\ calls[1]["resp"] = resp

\* The second of two real runs of a present function, the first of which
\* returned True with every mutation applied.
SecondPresent ==
    /\ op \in PresentOps /\ ncalls >= 2 /\ ~test /\ ~prev["test"]
    /\ prev["pc"] = "done" /\ prev["result"] = RTrue /\ prev["faithful"]

\* C16: when the locator finds the resource, a present function issues no
\* create call and returns True with empty changes (for the route table:
\* _route_table_present does); the second of two successful real runs
\* issues no create call and no run issues more than one; an absent
\* function whose locator finds nothing issues no delete call and returns
\* True with empty changes.
C16_ExistenceIdempotent ==
    /\ (op \in PresentOps /\ Located("ok")) =>
            /\ CallsOf(CreateFns) = <<>>
            /\ IF IsRtp
               THEN Len(steps) >= 1 /\ steps[1]["result"] = RTrue
                                    /\ steps[1]["changes"] = EmptyDict
               ELSE pc = "done" /\ ret["result"] = RTrue
                                /\ ret["changes"] = EmptyDict
    /\ op \in PresentOps => Len(CallsOf(CreateFns)) <= 1
    /\ SecondPresent => CallsOf(CreateFns) = <<>>
    /\ (op \in AbsentOps /\ Located("none")) =>
            /\ CallsOf(DeleteFns) = <<>>
            /\ pc = "done" /\ ret["result"] = RTrue /\ ret["changes"] = EmptyDict

\* The second run of a present function whose first run created the
\* resource: the locator finds it and the run returns.
C16_Witness ==
    /\ SecondPresent /\ op \in SingleOps /\ prev["mutated"]
    /\ pc = "done" /\ Located("ok") /\ Len(calls) = 1

\* C17: in the single-resource functions a lookup error returns False with
\* empty changes after that one call, and a failed create or delete is the
\* last call and returns False with empty changes and the provider's error
\* message.
C17_FailuresShortCircuit ==
    (op \in SingleOps /\ calls # <<>>) =>
        /\ Located("error") =>
                /\ Len(calls) = 1 /\ pc = "done"
                /\ ret["result"] = RFalse /\ ret["changes"] = EmptyDict
        /\ \A k \in 1..Len(calls) :
                (calls[k]["fn"] \in CreateFns \cup DeleteFns
                    /\ calls[k]["resp"] \in Failures) =>
                    /\ k = Len(calls) /\ pc = "done"
                    /\ ret["result"] = RFalse /\ ret["changes"] = EmptyDict
                    /\ \E j \in 1..Len(ret["comment"]) :
                            ret["comment"][j][2] = "error"

\* A real run that follows a dry run of the same declaration, neither of
\* them with a failing provider call, has finished.
RealAfterDryRun ==
    /\ ncalls = 2 /\ prev["test"] /\ ~test /\ faults = 0
    /\ pc \in {"done", "raised"}

\* C18: the dry run returned None exactly when the real run from the same
\* provider state issues a mutating call, and True exactly when the real
\* run issues none and returns True.
C18_DryRunPredictsRealRun ==
    RealAfterDryRun =>
        /\ (prev["pc"] = "done" /\ prev["result"] = RNone)
                <=> CallsOf(Mutating) # <<>>
        /\ (prev["pc"] = "done" /\ prev["result"] = RTrue)
                <=> (CallsOf(Mutating) = <<>> /\ pc = "done"
                                             /\ ret["result"] = RTrue)

\* The key and the id the changes of a single-resource function name.
KeyOf(o) ==
    CASE o \in {"present", "absent"} -> "vpc"
      [] o \in {"subnet_present", "subnet_absent"} -> "subnet"
      [] o \in {"internet_gateway_present", "internet_gateway_absent"} ->
            "internet_gateway"
      [] OTHER -> "route_table"
IdOf(o) ==
    CASE o \in {"present", "absent"} -> VpcId
      [] o \in {"subnet_present", "subnet_absent"} -> SubnetIdOf(SubnetName)
      [] o \in {"internet_gateway_present", "internet_gateway_absent"} -> IgwId
      [] OTHER -> RouteTableId
CreatedOrDeleted ==
    \E k \in 1..Len(calls) :
        calls[k]["fn"] \in CreateFns \cup DeleteFns /\ calls[k]["resp"] = "ok"

\* C19: a real run of a single-resource function returns non-empty changes
\* exactly when its create or delete call succeeded; then present reports
\* old None and new the created resource, absent old the id and new None.
C19_ChangesDirection ==
    (op \in SingleOps /\ ~test /\ pc = "done") =>
        /\ ret["changes"] # EmptyDict <=> CreatedOrDeleted
        /\ (CreatedOrDeleted /\ op \in PresentOps) =>
                ret["changes"] = Changes(KeyOf(op), None, IdOf(op))
        /\ (CreatedOrDeleted /\ op \in AbsentOps) =>
                ret["changes"] = Changes(KeyOf(op), IdOf(op), None)

\* The describe_route_table calls of _routes_present.
IsRouteRead(c) == c["fn"] = "describe_route_table" /\ c["arg"] = "routes"
RouteReads == SelectSeq(calls, IsRouteRead)

\* The routes of the table when _routes_present first read them: those the
\* invocation started with, or those of the table it has just created.
FirstRead == IF pre["rtb"] THEN pre["routes"] ELSE <<LocalRoute>>

\* C20: a real _routes_present that has returned reports, when its diff was
\* not empty, the routes it first read as old and the routes of a second
\* read, made after every delete_route and create_route call, as new; when
\* its diff was empty it has read once and reports no changes.
C20_RoutesChangesReread ==
    (IsRtp /\ ~test /\ Len(steps) >= 2) =>
        IF NonEmpty(routes_diff)
        THEN /\ steps[2]["changes"] = Changes("routes", FirstRead, aws["routes"])
             /\ Len(RouteReads) = 2
             /\ \A j, k \in 1..Len(calls) :
                    (IsRouteRead(calls[j]) /\ IsRouteRead(calls[k]) /\ j < k) =>
                        \A n \in 1..Len(calls) :
                            calls[n]["fn"] \in {"delete_route", "create_route"}
                                => (j < n /\ n < k)
        ELSE /\ steps[2]["changes"] = EmptyDict
             /\ Len(RouteReads) = 1

\* _routes_present returned after one route call that failed and one that
\* changed the table.
C20_Witness ==
    /\ IsRtp /\ ~test /\ Len(steps) >= 2 /\ NonEmpty(routes_diff)
    /\ SomeRouteCallFailed
    /\ steps[2]["changes"]["new"] # steps[2]["changes"]["old"]

AssocFns == {"associate_route_table", "disassociate_route_table"}
RouteFns == {"delete_route", "create_route"}

\* The provider calls of _subnets_present.
IsSubnetStepCall(c) ==
    \/ c["fn"] = "get_resource_id" /\ c["arg"] # "route_table"
    \/ c["fn"] = "describe_route_table" /\ c["arg"] = "associations"
    \/ c["fn"] \in AssocFns
SubnetStepCalls == SelectSeq(calls, IsSubnetStepCall)

\* C21: create_route_table precedes every route call and every route call
\* precedes every associate / disassociate call; when _routes_present has
\* returned False, route_table_present has returned without any call of
\* _subnets_present; when it has returned True or None, _subnets_present is
\* about to run or has issued its calls, and route_table_present does not
\* return before it has.
C21_StepOrder ==
    IsRtp =>
        /\ \A j, k \in 1..Len(calls) :
                \/ calls[j]["fn"] \in AssocFns
                        /\ calls[k]["fn"] \in RouteFns \cup {"create_route_table"}
                \/ calls[j]["fn"] \in RouteFns /\ calls[k]["fn"] = "create_route_table"
                => k < j
        /\ (Len(steps) >= 2 /\ steps[2]["result"] = RFalse) =>
                /\ pc = "done" /\ Len(steps) = 2
                /\ SubnetStepCalls = <<>>
        /\ (Len(steps) >= 2 /\ steps[2]["result"] # RFalse) =>
                /\ pc \in {"subnets_lookup", "subnets_describe"}
                        \/ SubnetStepCalls # <<>>
                /\ pc = "done" => Len(steps) = 3

\* A real run whose route calls left _routes_present at False returned with
\* the desired subnets untouched.
C21_Witness ==
    /\ IsRtp /\ ~test /\ pc = "done"
    /\ Len(steps) = 2 /\ steps[2]["result"] = RFalse
    /\ RouteCalls # <<>> /\ subnet_ids # <<>>

\* The comments of the private functions that returned, joined in order.
RECURSIVE JoinComments(_)
JoinComments(rets) ==
    IF rets = <<>> THEN <<>>
    ELSE Head(rets)["comment"] \o JoinComments(Tail(rets))

\* C22: the comment of route_table_present is the comments of the private
\* functions that have returned, in order, and its changes hold every old
\* and new entry of each of them, whether it has returned or not.
C22_OutcomeMerged ==
    IsRtp =>
        /\ ret["comment"] = JoinComments(steps)
        /\ \A k \in 1..Len(steps) :
                \A side \in DOMAIN steps[k]["changes"] :
                    /\ side \in DOMAIN ret["changes"]
                    /\ \A key \in DOMAIN steps[k]["changes"][side] :
                            /\ key \in DOMAIN ret["changes"][side]
                            /\ ret["changes"][side][key] =
                                    steps[k]["changes"][side][key]

\* A run that created the table, changed its routes and its associations.
C22_Witness ==
    /\ IsRtp /\ pc = "done" /\ Len(steps) = 3
    /\ \A k \in 1..3 : steps[k]["changes"] # EmptyDict
    /\ DOMAIN ret["changes"]["new"] = {"route_table", "routes", "subnets_associations"}

\* The describe_route_table calls of _subnets_present, and the associate /
\* disassociate calls issued and planned.
IsAssocRead(c) == c["fn"] = "describe_route_table" /\ c["arg"] = "associations"
AssocReads == SelectSeq(calls, IsAssocRead)
IssuedAssocCalls ==
    [k \in 1..Len(AssocCalls) |-> <<AssocCalls[k]["fn"], AssocCalls[k]["arg"]>>]
PlannedAssocCalls ==
    LET td == subnets_diff["to_delete"]
        tc == subnets_diff["to_create"]
    IN  [k \in 1..(Len(td) + Len(tc)) |->
            IF k <= Len(td) THEN <<"disassociate_route_table", td[k]>>
            ELSE <<"associate_route_table", tc[k - Len(td)]>>]
IsPrefix(a, b) == Len(a) <= Len(b) /\ a = SubSeq(b, 1, Len(a))

\* The table is as declared: it exists, its routes other than local ones
\* are the desired ones, its associations bind the desired subnets.
NonLocal(S) == {r \in S : r["gateway_id"] # "local"}
Converged ==
    /\ aws["rtb"]
    /\ NonLocal(Elems(aws["routes"])) =
            NonLocal({FullRoute(d) : d \in Elems(args["routes"])})
    /\ Elems(AssocSubnetIds(aws["assocs"])) = DesiredSubnets

\* C23: with another writer at work, while the loops of _routes_present run
\* the table has been read once, the diff is that of this read and the
\* calls issued are the first of those planned from it, all of them once the
\* loops are over; the same holds of _subnets_present.
C23_NoRereadBeforeApplying ==
    IsRtp =>
        /\ pc \in {"routes_delete", "routes_create", "routes_redescribe"} =>
                /\ Len(RouteReads) = 1
                /\ routes_diff["to_create"] =
                        RoutesToCreate(routes, route_table["routes"])
                /\ routes_diff["to_delete"] =
                        RoutesToDelete(routes, route_table["routes"])
                /\ IsPrefix(IssuedRouteCalls, PlannedRouteCalls)
        /\ pc = "routes_redescribe" => IssuedRouteCalls = PlannedRouteCalls
        /\ pc \in {"subnets_disassociate", "subnets_associate",
                    "subnets_redescribe"} =>
                /\ Len(AssocReads) = 1
                /\ subnets_diff["to_create"] =
                        SubnetsToCreate(subnet_ids, route_table["associations"])
                /\ subnets_diff["to_delete"] =
                        SubnetsToDelete(subnet_ids, route_table["associations"])
                /\ IsPrefix(IssuedAssocCalls, PlannedAssocCalls)
        /\ pc = "subnets_redescribe" => IssuedAssocCalls = PlannedAssocCalls

\* Another writer removed a route after it was read: delete_route was
\* issued for it all the same, and the run returned True over a table that
\* is not as declared.
C23_Witness ==
    /\ IsRtp /\ ~test /\ writes > 0 /\ pc = "done"
    /\ ret["result"] = RTrue /\ ~Converged
    /\ \E k \in 1..Len(calls) :
            calls[k]["fn"] = "delete_route" /\ calls[k]["resp"] \in Failures

\* C24: a real route_table_present that returned True leaves the table as
\* declared.
C24_Converges ==
    (IsRtp /\ ~test /\ pc = "done" /\ ret["result"] = RTrue) => Converged

\* C25: an associate or disassociate call that reports an error is the last
\* call, and _subnets_present returns False with empty changes.
C25_AssocErrorEmptyChanges ==
    \A k \in 1..Len(calls) :
        (calls[k]["fn"] \in AssocFns /\ calls[k]["resp"] = "error") =>
            /\ k = Len(calls) /\ Len(steps) = 3
            /\ steps[3] = Ret(RFalse, steps[3]["comment"], EmptyDict)

\* An association was removed, the next call reported an error: the changes
\* of _subnets_present are empty and the associations are not those the
\* invocation started with.
C25_Witness ==
    /\ IsRtp /\ ~test /\ pc = "done" /\ Len(steps) = 3
    /\ Len(AssocCalls) >= 2 /\ AssocCalls[1]["resp"] = "ok"
    /\ AssocCalls[Len(AssocCalls)]["resp"] = "error"
    /\ steps[3]["changes"] = EmptyDict
    /\ aws["assocs"] # pre["assocs"]

====
